---------------------------- MODULE Spec2Model ----------------------------
(***************************************************************************)
(* fsClient.Put and BlockingWriteCloser (package fs).                      *)
(*                                                                         *)
(* Put creates an io.Pipe, wraps its write end in a BlockingWriteCloser    *)
(* and starts a goroutine that validates the request, creates the          *)
(* destination file and copies `size' bytes from the read end of the pipe  *)
(* into it.  The caller writes to the handle and closes it; Close blocks   *)
(* on a sync.WaitGroup until the goroutine calls Release.                  *)
(*                                                                         *)
(* Two threads of control are modelled, each as a program counter over    *)
(* the statements that touch shared state (the pipe, the WaitGroup, the    *)
(* handle's err field, the file system).  Statements on the same shared    *)
(* location are separate steps, so an unsynchronised read and write of     *)
(* b.err are ordered either way by the interleaving.                       *)
(*                                                                         *)
(* The program never looks at the value of a byte, so the k-th byte the    *)
(* caller sends is the number k: the caller chooses only how long each     *)
(* Write is.                                                               *)
(***************************************************************************)
EXTENDS Integers, Sequences, FiniteSets, TLC

\* Bounds of the model.
MaxSize == 2
MaxChunk == 2
MaxWrites == 3
NumReleasers == 2
MaxReleases == 2
MaxTotal == 3
MaxBuf == 2

VARIABLES
    req,        \* the arguments of Put: [bucket, object, size]
    files,      \* the file system: path -> content, or Absent
    files0,     \* the file system when Put was called
    caller,     \* the caller's thread: [pc, chunk, writes]
    sent,       \* every byte passed to Write so far, in order
    wres,       \* what each Write call returned: <<[len, n, err]>>
    putRes,     \* what Put returned
    closeRes,   \* what Close returned
    pipe,       \* the io.Pipe: [data, pending, rerr, werr]
    handle,     \* the BlockingWriteCloser: [w, latch, err]
    worker,     \* the goroutine of Put: [pc, err, remaining, buf, written, path]
    hist,       \* calls and events so far (see HistInit)
    panicked,   \* the process died of a panic
    stub,       \* a WriteCloser other than a pipe: [closeErr]
    rel,        \* other goroutines calling Release: id -> [pc, arg]
    relLog,     \* the outcome of each WaitGroup.Done, in order
    bar         \* a progressBar (package cmd): [pc, current, total, buflen, last]

vars == <<req, files, files0, caller, sent, wres, putRes, closeRes, pipe,
          handle, worker, hist, panicked, stub, rel, relLog, bar>>

-----------------------------------------------------------------------------
(* Errors.  An error is its cause and whether iodine.New has wrapped it.   *)

Nil == [cause |-> "nil", traced |-> FALSE]

Raw(kind) == [cause |-> kind, traced |-> FALSE]

\* iodine.New(err, nil): nil stays nil, an error is wrapped and keeps its cause.
IodineNew(err) == IF err = Nil THEN Nil ELSE [err EXCEPT !.traced = TRUE]

Cause(err) == err.cause

EOF == Raw("EOF")

ErrClosedPipe == Raw("ErrClosedPipe")

InvalidArgument == Raw("InvalidArgument")

ObjectExists == Raw("ObjectExists")

\* What the operating system may answer to a failed open or write.
CreateErrnos == {"EACCES"}

WriteErrnos == {"ENOSPC"}

\* os.IsExist(err)
IsExist(err) == Cause(err) \in {"EEXIST", "ENOTEMPTY"}

Min(a, b) == IF a < b THEN a ELSE b

-----------------------------------------------------------------------------
(* The request and the file system.                                        *)

\* No file at a path; bytes are numbers >= 0.
Absent == <<-1>>

Buckets == {"", "b"}

Objects == {"", "o"}

Sizes == (-1) .. MaxSize

\* filepath.Join(bucket, object); called with both names non-empty.
Join(bucket, object) == bucket \o "/" \o object

Paths == {Join("b", "o")}

objectPath == Join(req.bucket, req.object)

ValidRequest == req.bucket # "" /\ req.object # "" /\ req.size >= 0

\* os.Create(path) is OpenFile(path, O_RDWR|O_CREATE|O_TRUNC, 0666): an
\* existing file is truncated, a missing one is created empty, and the call
\* may fail for a reason of the environment.  Without O_EXCL it never
\* fails with EEXIST.
OsCreate(fsys, path) ==
    {[err |-> Nil, fsys |-> [fsys EXCEPT ![path] = <<>>]]}
    \cup {[err |-> Raw(e), fsys |-> fsys] : e \in CreateErrnos}

\* (*os.File).Write(buf): all of buf is appended, or a prefix of it and an error.
FileWrite(fsys, path, buf) ==
    {[nw |-> Len(buf), err |-> Nil,
      fsys |-> [fsys EXCEPT ![path] = @ \o buf]]}
    \cup {[nw |-> k, err |-> Raw(e),
           fsys |-> [fsys EXCEPT ![path] = @ \o SubSeq(buf, 1, k)]] :
              k \in 0 .. (Len(buf) - 1), e \in WriteErrnos}

-----------------------------------------------------------------------------
(* io.Pipe: data is the pending Write's unread bytes, pending says that a  *)
(* Write is waiting (data != nil), rerr and werr are the errors the read   *)
(* and the write end were closed with.                                     *)

NewPipe == [data |-> <<>>, pending |-> FALSE, rerr |-> Nil, werr |-> Nil]

\* PipeWriter.Write(b), first half: hand b to the reader.
PipeWriteBegin(p, b) == [p EXCEPT !.data = b, !.pending = TRUE]

\* A pipe with a buffer: Write returns without waiting for the reader.
PipeWriteCanReturn_Buffered(p) == TRUE

\* PipeWriter.Write waits until its data is consumed or the reader closed.
PipeWriteCanReturn(p) == ~p.pending \/ p.rerr # Nil

\* A Write that reports all of b as written when the reader has closed.
PipeWriteResult_FullCount(p, b) ==
    [n |-> Len(b), err |-> IF ~p.pending THEN Nil ELSE p.rerr]

\* PipeWriter.Write(b), second half: the count of bytes consumed and the error.
PipeWriteResult(p, b) ==
    [n |-> Len(b) - Len(p.data),
     err |-> IF ~p.pending THEN Nil ELSE p.rerr]

PipeWriteEnd(p) == [p EXCEPT !.data = <<>>, !.pending = FALSE]

\* PipeReader.Read waits for data or for the writer's close.
PipeReadReady(p) == p.rerr # Nil \/ p.pending \/ p.werr # Nil

\* A read that takes all the pending bytes, whatever the length of buf.
PipeRead_IgnoresLimit(p, max) ==
    IF p.rerr # Nil THEN [bytes |-> <<>>, err |-> ErrClosedPipe, pipe |-> p]
    ELSE IF p.pending THEN
        [bytes |-> p.data, err |-> Nil,
         pipe |-> [p EXCEPT !.data = <<>>, !.pending = FALSE]]
    ELSE [bytes |-> <<>>, err |-> p.werr, pipe |-> p]

\* PipeReader.Read(buf) with len(buf) = max.
PipeRead(p, max) ==
    IF p.rerr # Nil THEN [bytes |-> <<>>, err |-> ErrClosedPipe, pipe |-> p]
    ELSE IF p.pending THEN
        LET n == Min(max, Len(p.data))
            rest == SubSeq(p.data, n + 1, Len(p.data))
        IN  [bytes |-> SubSeq(p.data, 1, n), err |-> Nil,
             pipe |-> [p EXCEPT !.data = rest, !.pending = (Len(rest) > 0)]]
    ELSE [bytes |-> <<>>, err |-> p.werr, pipe |-> p]

\* The read end closed with Close() where CloseWithError(err) was meant.
RCloseWithError_DropsErr(p, err) == [p EXCEPT !.rerr = ErrClosedPipe]

\* PipeReader.CloseWithError(err); Close() is CloseWithError(nil).
RCloseWithError(p, err) ==
    [p EXCEPT !.rerr = IF err = Nil THEN ErrClosedPipe ELSE err]

\* PipeWriter.Close(): CloseWithError(nil), which always returns nil.
WClose(p) == [p EXCEPT !.werr = EOF]

-----------------------------------------------------------------------------
(* BlockingWriteCloser and sync.WaitGroup.                                 *)

\* NewBlockingWriteCloser(w): wg.Add(1), err is nil.
NewBlockingWriteCloser(w) == [w |-> w, latch |-> 1, err |-> Nil]

\* A latch that ignores a second Done instead of panicking.
WgDone_NoPanic(latch) ==
    [latch |-> IF latch > 0 THEN latch - 1 ELSE 0, panic |-> FALSE]

\* WaitGroup.Done(): Add(-1), which panics on a negative counter.
WgDone(latch) == [latch |-> latch - 1, panic |-> latch - 1 < 0]

\* Close without the wait for Release.
WgWaitReturns_NoWait(latch) == TRUE

\* WaitGroup.Wait() returns once the counter is zero.
WgWaitReturns(latch) == latch = 0

\* Release, after Done: if err != nil { b.err = err }
ReleaseSetErr(h, err) == IF err # Nil THEN [h EXCEPT !.err = err] ELSE h

\* Close, after b.w.Close(): if err != nil { b.err = err }
CloseSetErr(h, err) == IF err # Nil THEN [h EXCEPT !.err = err] ELSE h

\* b.w.Close(): a PipeWriter closes the pipe and returns nil; another
\* writer returns what it returns.
UnderlyingClose(h, p, st) ==
    IF h.w = "pipe" THEN [err |-> Nil, pipe |-> WClose(p)]
    ELSE [err |-> st.closeErr, pipe |-> p]

-----------------------------------------------------------------------------
(* History: what has been called and what has happened so far.             *)

HistInit ==
    [nRelease |-> 0,        \* Release calls made by the goroutine of Put
     nRClose |-> 0,         \* closes of the read end made by it
     nCalls |-> 0,          \* Release calls made by other goroutines
     nReturned |-> 0,       \* those of them that returned
     nRead |-> 0,           \* bytes the goroutine of Put has read from the pipe
     envFailed |-> FALSE,   \* os.Create or a file write failed
     copied |-> FALSE,      \* io.CopyN returned nil
     failed |-> FALSE,      \* the goroutine took an error branch
     failWrites |-> 0,      \* Write calls begun before it did
     failPending |-> FALSE, \* a Write was waiting with unread bytes then
     failOpen |-> FALSE]    \* the write end was still open then

\* The next k bytes the caller sends.
NextChunk(k) == [i \in 1 .. k |-> Len(sent) + i]

-----------------------------------------------------------------------------
(* The caller's thread.                                                    *)

\* A Put that validates the names and the size itself and returns the error.
Put_Validates ==
    /\ ~panicked
    /\ caller.pc = "start"
    /\ pipe' = NewPipe
    /\ handle' = NewBlockingWriteCloser("pipe")
    /\ worker' = [worker EXCEPT !.pc = "l19"]
    /\ putRes' = [returned |-> TRUE, handle |-> ValidRequest,
                  err |-> IF ValidRequest THEN Nil ELSE IodineNew(InvalidArgument)]
    /\ caller' = [caller EXCEPT !.pc = "ready"]
    /\ UNCHANGED <<bar, req, files, files0, sent, wres, closeRes, hist, panicked,
                   stub, rel, relLog>>

\* Put: the pipe, the handle and the goroutine are created; Put returns
\* the handle and a nil error without waiting for the goroutine.
Put ==
    /\ ~panicked
    /\ caller.pc = "start"
    /\ pipe' = NewPipe
    /\ handle' = NewBlockingWriteCloser("pipe")
    /\ worker' = [worker EXCEPT !.pc = "l19"]
    /\ putRes' = [returned |-> TRUE, handle |-> TRUE, err |-> Nil]
    /\ caller' = [caller EXCEPT !.pc = "ready"]
    /\ UNCHANGED <<bar, req, files, files0, sent, wres, closeRes, hist, panicked,
                   stub, rel, relLog>>

\* BlockingWriteCloser.Write(p) is called with the next k bytes: b.w.Write(p)
\* fails at once on a closed write end, and otherwise hands p to the reader.
Write(k) ==
    /\ ~panicked
    /\ caller.pc = "ready"
    /\ handle.w = "pipe"
    /\ caller.writes < MaxWrites
    /\ sent' = sent \o NextChunk(k)
    /\ IF pipe.werr # Nil
       THEN /\ wres' = Append(wres, [len |-> k, n |-> 0,
                                     err |-> IodineNew(ErrClosedPipe)])
            /\ caller' = [caller EXCEPT !.writes = @ + 1]
            /\ pipe' = pipe
       ELSE /\ pipe' = PipeWriteBegin(pipe, NextChunk(k))
            /\ caller' = [caller EXCEPT !.pc = "writing", !.writes = @ + 1,
                                        !.chunk = NextChunk(k)]
            /\ wres' = wres
    /\ UNCHANGED <<bar, req, files, files0, putRes, closeRes, handle, worker, hist,
                   panicked, stub, rel, relLog>>

\* b.w.Write(p) returns; Write wraps the error and returns.
WriteReturn ==
    /\ ~panicked
    /\ caller.pc = "writing"
    /\ PipeWriteCanReturn(pipe)
    /\ LET r == PipeWriteResult(pipe, caller.chunk)
       IN  wres' = Append(wres, [len |-> Len(caller.chunk), n |-> r.n,
                                 err |-> IodineNew(r.err)])
    /\ pipe' = PipeWriteEnd(pipe)
    /\ caller' = [caller EXCEPT !.pc = "ready", !.chunk = <<>>]
    /\ UNCHANGED <<bar, req, files, files0, sent, putRes, closeRes, handle, worker,
                   hist, panicked, stub, rel, relLog>>

\* The caller calls Close.
CallClose ==
    /\ ~panicked
    /\ caller.pc = "ready"
    /\ caller' = [caller EXCEPT !.pc = "close75"]
    /\ UNCHANGED <<bar, req, files, files0, sent, wres, putRes, closeRes, pipe,
                   handle, worker, hist, panicked, stub, rel, relLog>>

\* Close: err := b.w.Close(); if err != nil { b.err = err }
CloseWriter ==
    /\ ~panicked
    /\ caller.pc = "close75"
    /\ LET c == UnderlyingClose(handle, pipe, stub)
       IN  /\ pipe' = c.pipe
           /\ handle' = CloseSetErr(handle, c.err)
    /\ caller' = [caller EXCEPT !.pc = "close79"]
    /\ UNCHANGED <<bar, req, files, files0, sent, wres, putRes, closeRes, worker,
                   hist, panicked, stub, rel, relLog>>

\* Close: b.release.Wait()
CloseWait ==
    /\ ~panicked
    /\ caller.pc = "close79"
    /\ WgWaitReturns(handle.latch)
    /\ caller' = [caller EXCEPT !.pc = "close80"]
    /\ UNCHANGED <<bar, req, files, files0, sent, wres, putRes, closeRes, pipe,
                   handle, worker, hist, panicked, stub, rel, relLog>>

\* Close: return b.err
CloseReturn ==
    /\ ~panicked
    /\ caller.pc = "close80"
    /\ closeRes' = [returned |-> TRUE, err |-> handle.err]
    /\ caller' = [caller EXCEPT !.pc = "closed"]
    /\ UNCHANGED <<bar, req, files, files0, sent, wres, putRes, pipe, handle,
                   worker, hist, panicked, stub, rel, relLog>>

-----------------------------------------------------------------------------
(* The goroutine started by Put.                                           *)

\* An error branch that goes to Release without r.CloseWithError(err).
EnterFail_NoClose(err, path, p) ==
    /\ worker' = [worker EXCEPT !.pc = "rel85", !.err = err, !.path = path,
                                !.buf = <<>>]
    /\ hist' = [hist EXCEPT !.failed = TRUE, !.failWrites = caller.writes,
                            !.failPending = p.pending,
                            !.failOpen = (p.werr = Nil),
                            !.envFailed = @ \/ path = "create" \/ path = "write"]

\* An error branch is taken with err: it is recorded, with what the caller
\* was doing at that moment (p is the pipe after the step).
EnterFail(err, path, p) ==
    /\ worker' = [worker EXCEPT !.pc = "fail", !.err = err, !.path = path,
                                !.buf = <<>>]
    /\ hist' = [hist EXCEPT !.failed = TRUE, !.failWrites = caller.writes,
                            !.failPending = p.pending,
                            !.failOpen = (p.werr = Nil),
                            !.envFailed = @ \/ path = "create" \/ path = "write"]

\* if bucket == "" || object == ""
CheckNames ==
    /\ ~panicked
    /\ worker.pc = "l19"
    /\ IF req.bucket = "" \/ req.object = ""
       THEN EnterFail(IodineNew(InvalidArgument), "names", pipe)
       ELSE /\ worker' = [worker EXCEPT !.pc = "l26"]
            /\ hist' = hist
    /\ UNCHANGED <<bar, req, files, files0, caller, sent, wres, putRes, closeRes,
                   pipe, handle, panicked, stub, rel, relLog>>

\* Validation without the test of size: os.Create runs for a negative size.
CheckSize_Missing ==
    /\ ~panicked
    /\ worker.pc = "l26"
    /\ worker' = [worker EXCEPT !.pc = "l32"]
    /\ UNCHANGED <<bar, req, files, files0, caller, sent, wres, putRes, closeRes,
                   pipe, handle, hist, panicked, stub, rel, relLog>>

\* if size < 0
CheckSize ==
    /\ ~panicked
    /\ worker.pc = "l26"
    /\ IF req.size < 0
       THEN EnterFail(IodineNew(InvalidArgument), "size", pipe)
       ELSE /\ worker' = [worker EXCEPT !.pc = "l32"]
            /\ hist' = hist
    /\ UNCHANGED <<bar, req, files, files0, caller, sent, wres, putRes, closeRes,
                   pipe, handle, panicked, stub, rel, relLog>>

\* fs, err := os.Create(objectPath), and the two tests of err.
Create ==
    /\ ~panicked
    /\ worker.pc = "l32"
    /\ \E c \in OsCreate(files, objectPath) :
          /\ files' = c.fsys
          /\ IF IsExist(c.err)
             THEN EnterFail(IodineNew(ObjectExists), "exists", pipe)
             ELSE IF c.err # Nil
             THEN EnterFail(IodineNew(c.err), "create", pipe)
             ELSE /\ worker' = [worker EXCEPT !.pc = "copyRead",
                                              !.remaining = req.size,
                                              !.written = 0]
                  /\ hist' = hist
    /\ UNCHANGED <<bar, req, files0, caller, sent, wres, putRes, closeRes, pipe,
                   handle, panicked, stub, rel, relLog>>

\* io.CopyN(dst, src, n), after its Copy(dst, LimitReader(src, n)) has
\* returned (written, err).
CopyNResult(written, n, err) ==
    IF written = n THEN Nil
    ELSE IF err = Nil THEN EOF
    ELSE err

\* The loop of io.Copy, its read: the LimitedReader answers EOF once n bytes
\* were read and otherwise reads at most the remaining count from the pipe.
\* A read of no bytes is repeated; EOF ends the loop without an error.
CopyRead ==
    /\ ~panicked
    /\ worker.pc = "copyRead"
    /\ IF worker.remaining <= 0
       THEN /\ pipe' = pipe
            /\ LET err == CopyNResult(worker.written, req.size, Nil)
               IN  IF err = Nil
                   THEN /\ worker' = [worker EXCEPT !.pc = "rel85", !.err = Nil,
                                                    !.path = "success"]
                        /\ hist' = [hist EXCEPT !.copied = TRUE]
                   ELSE EnterFail(IodineNew(err), "copy", pipe)
       ELSE /\ PipeReadReady(pipe)
            /\ LET r == PipeRead(pipe, worker.remaining)
               IN  /\ pipe' = r.pipe
                   /\ IF r.err = Nil
                      THEN /\ worker' =
                                [worker EXCEPT
                                   !.pc = IF Len(r.bytes) > 0 THEN "copyWrite"
                                          ELSE "copyRead",
                                   !.buf = r.bytes,
                                   !.remaining = @ - Len(r.bytes)]
                           /\ hist' = [hist EXCEPT !.nRead = @ + Len(r.bytes)]
                      ELSE LET cause == IF r.err = EOF THEN Nil ELSE r.err
                               err == CopyNResult(worker.written, req.size, cause)
                           IN  IF err = Nil
                               THEN /\ worker' = [worker EXCEPT !.pc = "rel85",
                                                    !.err = Nil,
                                                    !.path = "success"]
                                    /\ hist' = [hist EXCEPT !.copied = TRUE]
                               ELSE EnterFail(IodineNew(err), "copy", r.pipe)
    /\ UNCHANGED <<bar, req, files, files0, caller, sent, wres, putRes, closeRes,
                   handle, panicked, stub, rel, relLog>>

\* The loop of io.Copy, its write of the bytes just read.
CopyWrite ==
    /\ ~panicked
    /\ worker.pc = "copyWrite"
    /\ \E w \in FileWrite(files, objectPath, worker.buf) :
          /\ files' = w.fsys
          /\ IF w.err = Nil
             THEN /\ worker' = [worker EXCEPT !.pc = "copyRead", !.buf = <<>>,
                                              !.written = @ + w.nw]
                  /\ hist' = hist
             ELSE /\ EnterFail(IodineNew(CopyNResult(worker.written + w.nw,
                                                     req.size, w.err)),
                               "write", pipe)
    /\ UNCHANGED <<bar, req, files0, caller, sent, wres, putRes, closeRes, pipe,
                   handle, panicked, stub, rel, relLog>>

\* An error branch that returns after r.CloseWithError(err), without Release.
FailCloseWithError_NoRelease ==
    /\ ~panicked
    /\ worker.pc = "fail"
    /\ pipe' = RCloseWithError(pipe, worker.err)
    /\ hist' = [hist EXCEPT !.nRClose = @ + 1]
    /\ worker' = [worker EXCEPT !.pc = "exit"]
    /\ UNCHANGED <<bar, req, files, files0, caller, sent, wres, putRes, closeRes,
                   handle, panicked, stub, rel, relLog>>

\* An error branch: r.CloseWithError(err)
FailCloseWithError ==
    /\ ~panicked
    /\ worker.pc = "fail"
    /\ pipe' = RCloseWithError(pipe, worker.err)
    /\ hist' = [hist EXCEPT !.nRClose = @ + 1]
    /\ worker' = [worker EXCEPT !.pc = "rel85"]
    /\ UNCHANGED <<bar, req, files, files0, caller, sent, wres, putRes, closeRes,
                   handle, panicked, stub, rel, relLog>>

\* blockingWriter.Release(err), its first statement: b.release.Done()
WorkerReleaseDone ==
    /\ ~panicked
    /\ worker.pc = "rel85"
    /\ LET d == WgDone(handle.latch)
       IN  /\ handle' = [handle EXCEPT !.latch = d.latch]
           /\ panicked' = d.panic
           /\ relLog' = Append(relLog, [arg |-> worker.err,
                                        out |-> IF d.panic THEN "panic" ELSE "ok"])
    /\ hist' = [hist EXCEPT !.nRelease = @ + 1]
    /\ worker' = [worker EXCEPT !.pc = "rel86"]
    /\ UNCHANGED <<bar, req, files, files0, caller, sent, wres, putRes, closeRes,
                   pipe, stub, rel>>

\* blockingWriter.Release(err), its second statement; then the goroutine
\* returns, or on the last line of the success path goes on to r.Close().
WorkerReleaseSet ==
    /\ ~panicked
    /\ worker.pc = "rel86"
    /\ handle' = ReleaseSetErr(handle, worker.err)
    /\ worker' = [worker EXCEPT
                    !.pc = IF worker.path = "success" THEN "l53" ELSE "exit"]
    /\ UNCHANGED <<bar, req, files, files0, caller, sent, wres, putRes, closeRes,
                   pipe, hist, panicked, stub, rel, relLog>>

\* A success path that ends with a second Release where r.Close() was meant.
SuccessClose_ReleasesAgain ==
    /\ ~panicked
    /\ worker.pc = "l53"
    /\ LET d == WgDone(handle.latch)
       IN  /\ handle' = [handle EXCEPT !.latch = d.latch]
           /\ panicked' = d.panic
           /\ relLog' = Append(relLog, [arg |-> worker.err,
                                        out |-> IF d.panic THEN "panic" ELSE "ok"])
    /\ hist' = [hist EXCEPT !.nRelease = @ + 1]
    /\ worker' = [worker EXCEPT !.pc = "exit"]
    /\ UNCHANGED <<bar, req, files, files0, caller, sent, wres, putRes, closeRes,
                   pipe, stub, rel>>

\* The success path: r.Close()
SuccessClose ==
    /\ ~panicked
    /\ worker.pc = "l53"
    /\ pipe' = RCloseWithError(pipe, Nil)
    /\ hist' = [hist EXCEPT !.nRClose = @ + 1]
    /\ worker' = [worker EXCEPT !.pc = "exit"]
    /\ UNCHANGED <<bar, req, files, files0, caller, sent, wres, putRes, closeRes,
                   handle, panicked, stub, rel, relLog>>

-----------------------------------------------------------------------------
(* An upload: Put, then Writes and a Close by the caller.                  *)

Releasers == 1 .. NumReleasers

\* No progress bar has been made.
NoBar == [pc |-> "none", current |-> 0, total |-> 0, buflen |-> 0, last |-> "none"]

WorkerInit ==
    [pc |-> "none", err |-> Nil, remaining |-> 0, buf |-> <<>>,
     written |-> 0, path |-> "none"]

Init ==
    /\ req \in [bucket : Buckets, object : Objects, size : Sizes]
    /\ files \in [Paths -> {Absent, <<0>>}]
    /\ files0 = files
    /\ caller = [pc |-> "start", chunk |-> <<>>, writes |-> 0]
    /\ sent = <<>>
    /\ wres = <<>>
    /\ putRes = [returned |-> FALSE, handle |-> FALSE, err |-> Nil]
    /\ closeRes = [returned |-> FALSE, err |-> Nil]
    /\ pipe = NewPipe
    /\ handle = [w |-> "none", latch |-> 0, err |-> Nil]
    /\ worker = WorkerInit
    /\ hist = HistInit
    /\ panicked = FALSE
    /\ stub = [closeErr |-> Nil]
    /\ rel = [r \in Releasers |-> [pc |-> "idle", arg |-> Nil]]
    /\ relLog = <<>>
    /\ bar = NoBar

CallerReturns == WriteReturn \/ CloseWriter \/ CloseWait \/ CloseReturn

WorkerNext ==
    \/ CheckNames
    \/ CheckSize
    \/ Create
    \/ CopyRead
    \/ CopyWrite
    \/ FailCloseWithError
    \/ WorkerReleaseDone
    \/ WorkerReleaseSet
    \/ SuccessClose

Next ==
    \/ Put
    \/ \E k \in 0 .. MaxChunk : Write(k)
    \/ CallClose
    \/ CallerReturns
    \/ WorkerNext

Spec == Init /\ [][Next]_vars

\* The Go scheduler runs every goroutine that can run: the goroutine of Put
\* takes its next step, and a call the caller is in returns when it can.
\* Whether the caller makes another call is up to the caller.
FairSpec == Spec /\ WF_vars(WorkerNext) /\ WF_vars(CallerReturns)

-----------------------------------------------------------------------------
(* A BlockingWriteCloser on its own: a handle made by                      *)
(* NewBlockingWriteCloser(w) for a writer w whose Close may fail, a thread *)
(* that closes it, and goroutines that call Release.                       *)

StubCloseErrs == {Nil, Raw("E1")}

ReleaseArgs == {Nil, Raw("E2"), Raw("E3")}

\* A goroutine calls Release(e).
ReleaseCall(r, e) ==
    /\ ~panicked
    /\ rel[r].pc \in {"idle", "returned"}
    /\ hist.nCalls < MaxReleases
    /\ rel' = [rel EXCEPT ![r] = [pc |-> "rel85", arg |-> e]]
    /\ hist' = [hist EXCEPT !.nCalls = @ + 1]
    /\ UNCHANGED <<bar, req, files, files0, caller, sent, wres, putRes, closeRes,
                   pipe, handle, worker, panicked, stub, relLog>>

\* Release: b.release.Done(); a panic ends the process.
ReleaseDone(r) ==
    /\ ~panicked
    /\ rel[r].pc = "rel85"
    /\ LET d == WgDone(handle.latch)
       IN  /\ handle' = [handle EXCEPT !.latch = d.latch]
           /\ panicked' = d.panic
           /\ relLog' = Append(relLog, [arg |-> rel[r].arg,
                                        out |-> IF d.panic THEN "panic" ELSE "ok"])
           /\ rel' = [rel EXCEPT ![r].pc = IF d.panic THEN "panicked" ELSE "rel86"]
    /\ UNCHANGED <<bar, req, files, files0, caller, sent, wres, putRes, closeRes,
                   pipe, worker, hist, stub>>

\* Release: if err != nil { b.err = err }, and the return.
ReleaseSet(r) ==
    /\ ~panicked
    /\ rel[r].pc = "rel86"
    /\ handle' = ReleaseSetErr(handle, rel[r].arg)
    /\ rel' = [rel EXCEPT ![r].pc = "returned"]
    /\ hist' = [hist EXCEPT !.nReturned = @ + 1]
    /\ UNCHANGED <<bar, req, files, files0, caller, sent, wres, putRes, closeRes,
                   pipe, worker, panicked, stub, relLog>>

InitBWC ==
    /\ req = [bucket |-> "b", object |-> "o", size |-> 0]
    /\ files = [p \in Paths |-> Absent]
    /\ files0 = files
    /\ caller = [pc |-> "ready", chunk |-> <<>>, writes |-> 0]
    /\ sent = <<>>
    /\ wres = <<>>
    /\ putRes = [returned |-> FALSE, handle |-> FALSE, err |-> Nil]
    /\ closeRes = [returned |-> FALSE, err |-> Nil]
    /\ pipe = NewPipe
    /\ stub \in [closeErr : StubCloseErrs]
    /\ handle = NewBlockingWriteCloser("stub")
    /\ worker = WorkerInit
    /\ hist = HistInit
    /\ panicked = FALSE
    /\ rel = [r \in Releasers |-> [pc |-> "idle", arg |-> Nil]]
    /\ relLog = <<>>
    /\ bar = NoBar

NextBWC ==
    \/ CallClose
    \/ CloseWriter
    \/ CloseWait
    \/ CloseReturn
    \/ \E r \in Releasers, e \in ReleaseArgs : ReleaseCall(r, e)
    \/ \E r \in Releasers : ReleaseDone(r)
    \/ \E r \in Releasers : ReleaseSet(r)

SpecBWC == InitBWC /\ [][NextBWC]_vars

-----------------------------------------------------------------------------
(* progressBar (package cmd): a pb.ProgressBar with a Read that keeps the  *)
(* progress within the total.  Only the two counters matter here: current  *)
(* (what Get returns) and Total.                                           *)

Totals == (-1) .. MaxTotal

BufLens == 0 .. MaxBuf

Lengths == 0 .. (MaxTotal + 1)

\* The other variables, which a progress bar does not touch.
UploadVars == <<req, files, files0, caller, sent, wres, putRes, closeRes, pipe,
                handle, worker, hist, panicked, stub, rel, relLog>>

\* pb.ProgressBar.Read(buf): Add(len(buf)), and len(buf) is returned.
PbRead(current, n) == current + n

\* A Read whose deferred function leaves the progress as it is.
ClampProgress_Off(current, total) == current

\* The deferred function of Read: if Get() > Total { Set64(Total) }
ClampProgress(current, total) == IF current > total THEN total ELSE current

\* Read(buf) with len(buf) = n: p.ProgressBar.Read(buf) has run, the
\* deferred function has not.
BarRead(n) ==
    /\ bar.pc = "idle"
    /\ bar' = [bar EXCEPT !.pc = "deferred", !.buflen = n,
                          !.current = PbRead(bar.current, n)]
    /\ UNCHANGED UploadVars

\* Read returns: the deferred function runs.
BarReadReturn ==
    /\ bar.pc = "deferred"
    /\ bar' = [bar EXCEPT !.pc = "idle", !.last = "Read",
                          !.current = ClampProgress(bar.current, bar.total)]
    /\ UNCHANGED UploadVars

\* Set64(length)
BarSet64(length) ==
    /\ bar.pc = "idle"
    /\ bar' = [bar EXCEPT !.current = length, !.last = "Set64"]
    /\ UNCHANGED UploadVars

\* SetTotal(total)
BarSetTotal(total) ==
    /\ bar.pc = "idle"
    /\ bar' = [bar EXCEPT !.total = total, !.last = "SetTotal"]
    /\ UNCHANGED UploadVars

\* newProgressBar(total): pb.New64(total), nothing read yet.
InitPB ==
    /\ req = [bucket |-> "b", object |-> "o", size |-> 0]
    /\ files = [p \in Paths |-> Absent]
    /\ files0 = files
    /\ caller = [pc |-> "start", chunk |-> <<>>, writes |-> 0]
    /\ sent = <<>>
    /\ wres = <<>>
    /\ putRes = [returned |-> FALSE, handle |-> FALSE, err |-> Nil]
    /\ closeRes = [returned |-> FALSE, err |-> Nil]
    /\ pipe = NewPipe
    /\ handle = [w |-> "none", latch |-> 0, err |-> Nil]
    /\ worker = WorkerInit
    /\ hist = HistInit
    /\ panicked = FALSE
    /\ stub = [closeErr |-> Nil]
    /\ rel = [r \in Releasers |-> [pc |-> "idle", arg |-> Nil]]
    /\ relLog = <<>>
    /\ \E total \in Totals :
          bar = [pc |-> "idle", current |-> 0, total |-> total, buflen |-> 0,
                 last |-> "new"]

NextPB ==
    \/ \E n \in BufLens : BarRead(n)
    \/ BarReadReturn
    \/ \E length \in Lengths : BarSet64(length)
    \/ \E total \in Totals : BarSetTotal(total)

SpecPB == InitPB /\ [][NextPB]_vars

-----------------------------------------------------------------------------
(* Properties.                                                             *)

Closed == closeRes.returned

Fresh == ValidRequest /\ files0[objectPath] = Absent

RECURSIVE SumN(_)
SumN(rs) == IF rs = <<>> THEN 0 ELSE rs[1].n + SumN(Tail(rs))

WriteOK(r) == r.err = Nil /\ r.n = r.len

\* C1: once the caller has called Close, Close returns and the goroutine of
\* Put exits, whatever branch the goroutine takes, when both threads are
\* scheduled fairly.
C1_CloseReturns ==
    (caller.pc = "close75") ~> (caller.pc = "closed" /\ worker.pc = "exit")

C1_Witness ==
    /\ caller.pc = "closed"
    /\ worker.pc = "exit"
    /\ worker.path = "copy"
    /\ Len(sent) > 0
    /\ closeRes.err = worker.err

\* C2: when Close returns nil, io.CopyN has returned nil after copying size
\* bytes; and when fewer than size bytes were written, Close does not
\* return nil.
C2_CloseNilMeansCopied ==
    Closed =>
       /\ closeRes.err = Nil => (hist.copied /\ worker.written = req.size)
       /\ Len(sent) < req.size => closeRes.err # Nil

\* C3: for an empty bucket name, an empty object name or a negative size,
\* Close returns InvalidArgument.
C3_InvalidArgument ==
    (Closed /\ ~ValidRequest) => Cause(closeRes.err) = "InvalidArgument"

\* C4 as claimed: for a valid request to a path with no file, when the
\* file system does not fail, after exactly size bytes were written (in any
\* number of Write calls) and the handle closed, every Write succeeded,
\* Close returned nil and the file holds the bytes written, in order.
C4_Original ==
    (Closed /\ Fresh /\ Len(sent) = req.size /\ ~hist.envFailed) =>
       /\ \A i \in 1 .. Len(wres) : WriteOK(wres[i])
       /\ closeRes.err = Nil
       /\ files[objectPath] = sent

\* C4 as amended: the same, for every Write of at least one byte (a Write
\* of no bytes gets ErrClosedPipe once the goroutine has read size bytes).
C4_ExactUpload ==
    (Closed /\ Fresh /\ Len(sent) = req.size /\ ~hist.envFailed) =>
       /\ \A i \in 1 .. Len(wres) : wres[i].len > 0 => WriteOK(wres[i])
       /\ closeRes.err = Nil
       /\ files[objectPath] = sent

C4_Witness ==
    /\ Closed
    /\ Fresh
    /\ req.size = MaxSize
    /\ Len(sent) = req.size
    /\ ~hist.envFailed
    /\ Len(wres) = MaxWrites
    /\ \E i \in 1 .. Len(wres) : wres[i].len = 0 /\ wres[i].err # Nil

\* C5: for a valid request to a path that holds a file, Close returns
\* ObjectExists and the file is as it was.
C5_ExistingObject ==
    (Closed /\ ValidRequest /\ files0[objectPath] # Absent) =>
       /\ Cause(closeRes.err) = "ObjectExists"
       /\ files[objectPath] = files0[objectPath]

\* C6: the goroutine of Put never calls Release twice and never closes the
\* read end twice, and when it has exited it has done each exactly once.
C6_OneReleaseOneClose ==
    /\ hist.nRelease <= 1
    /\ hist.nRClose <= 1
    /\ ~panicked
    /\ worker.pc = "exit" => (hist.nRelease = 1 /\ hist.nRClose = 1)

C6_Witness ==
    /\ worker.pc = "exit"
    /\ worker.path = "write"
    /\ hist.nRelease = 1
    /\ hist.nRClose = 1

\* C7: when the writer's Close failed with e1 and Release was called with a
\* non-nil e2, Close returns e2.
C7_WorkerErrorWins ==
    (Closed /\ stub.closeErr # Nil /\ Len(relLog) >= 1 /\ relLog[1].arg # Nil)
       => closeRes.err = relLog[1].arg

\* C8: a Write that returned nil had all of its bytes read by the goroutine,
\* and the bytes acknowledged by Write calls never exceed the bytes read.
C8_Backpressure ==
    /\ \A i \in 1 .. Len(wres) : wres[i].err = Nil => wres[i].n = wres[i].len
    /\ SumN(wres) <= hist.nRead
    /\ Len(sent) - hist.nRead <=
          Len(pipe.data) + SumN([i \in 1 .. Len(wres) |->
                                    [n |-> wres[i].len - wres[i].n]])

C8_Witness ==
    /\ Len(wres) >= 2
    /\ WriteOK(wres[1]) /\ WriteOK(wres[2])
    /\ wres[1].len > 0 /\ wres[2].len > 0
    /\ caller.pc = "writing"
    /\ Len(pipe.data) > 0

\* C9: the first Release of a handle does not panic; every later one panics
\* in WaitGroup.Done, does not return, and has not set b.err.
C9_SecondReleasePanics ==
    /\ \A i \in 1 .. Len(relLog) : (relLog[i].out = "panic") <=> (i > 1)
    /\ panicked <=> Len(relLog) > 1
    /\ hist.nReturned + Cardinality({r \in Releasers : rel[r].pc = "rel86"}) <= 1
    /\ Len(relLog) >= 1 => handle.err \in {Nil, stub.closeErr, relLog[1].arg}

C9_Witness ==
    /\ panicked
    /\ Len(relLog) = 2
    /\ relLog[1].arg # Nil
    /\ relLog[2].arg # Nil
    /\ relLog[2].arg # relLog[1].arg
    /\ hist.nReturned = 1

\* The Write calls the goroutine's error branch answers: those begun after
\* it was taken, and the one waiting with unread bytes when it was taken.
Covered(i) ==
    \/ i > hist.failWrites
    \/ i = hist.failWrites /\ hist.failPending

C10_ErrorReachesWrites ==
    (hist.failed /\ hist.failOpen) =>
       \A i \in 1 .. Len(wres) : Covered(i) => wres[i].err = worker.err

\* C10: when the goroutine takes an error branch while the write end is
\* open, the Write waiting then and every later Write return its error; and
\* every Write returns.
C10_WritesReturn ==
    /\ []C10_ErrorReachesWrites
    /\ (caller.pc = "writing") ~> (caller.pc # "writing")

C10_Witness ==
    /\ hist.failed /\ hist.failOpen /\ hist.failPending
    /\ worker.path = "write"
    /\ Len(wres) = MaxWrites
    /\ hist.failWrites = MaxWrites - 1
    /\ wres[hist.failWrites].err = worker.err
    /\ wres[hist.failWrites].n > 0
    /\ wres[MaxWrites].err = worker.err


\* C11: after fewer than size bytes were written and Close returned, no
\* file is left at the destination (the program has no way to mark a file
\* as failed).
C11_NoPartialObject ==
    (Closed /\ Fresh /\ Len(sent) < req.size) => files[objectPath] = Absent


\* C12: for an empty bucket name, an empty object name or a negative size
\* the goroutine creates, truncates and writes no file: the file system
\* stays as it was when Put was called.
C12_ValidationBeforeCreate ==
    ~ValidRequest => (files = files0 /\ worker.pc \notin {"l32", "copyRead", "copyWrite"})

C12_Witness ==
    /\ ~ValidRequest
    /\ req.size < 0
    /\ req.bucket # "" /\ req.object # ""
    /\ worker.pc = "exit"
    /\ Closed
    /\ \E p \in Paths : files0[p] # Absent


\* C13: Put returns a handle and a nil error for every request, valid or
\* not, and can return before the goroutine has taken any step; what the
\* goroutine finds wrong is only in what Write and Close return later.
C13_PutReturnsHandle ==
    /\ caller.pc = "start" => (ENABLED Put /\ worker.pc = "none")
    /\ putRes.returned =>
          /\ putRes.handle
          /\ putRes.err = Nil
          /\ handle.w = "pipe"

C13_Witness ==
    /\ putRes.returned
    /\ putRes.err = Nil
    /\ ~ValidRequest
    /\ worker.pc = "l19"
    /\ caller.pc = "ready"

\* C14 as claimed: b.err is written only by the goroutine's one Release, and
\* that write is done before Close gets past Wait: once Wait has returned
\* Release is not between its Done and its store, and Close returns the
\* error Release was called with.
C14_ErrHandedOffByLatch ==
    /\ caller.pc \in {"close80", "closed"} =>
          ~(worker.pc = "rel86" /\ worker.err # Nil)
    /\ (Closed /\ Len(relLog) >= 1) => closeRes.err = relLog[1].arg


\* The state of the handle: Pending until Close is called, ClosedWaiting
\* while Close waits, Released once the latch is down.
CloseCalled == caller.pc \in {"close75", "close79", "close80", "closed"}

HandleState ==
    IF handle.w = "none" THEN "None"
    ELSE IF handle.latch = 0 THEN "Released"
    ELSE IF CloseCalled THEN "ClosedWaiting"
    ELSE "Pending"

\* C15 as claimed: the latch goes down only on a handle whose Close has been
\* called; a handle is never Released without having been ClosedWaiting.
C15_Original == HandleState = "Released" => CloseCalled

\* C15 as amended: the handle goes from Pending to Released either through
\* ClosedWaiting or directly (Release may come before Close is called),
\* never back, and Close returns only on a Released handle.
C15_HandleStates ==
    /\ [][ \/ HandleState' = HandleState
           \/ <<HandleState, HandleState'>> \in
                 {<<"None", "Pending">>, <<"Pending", "ClosedWaiting">>,
                  <<"Pending", "Released">>, <<"ClosedWaiting", "Released">>}
         ]_vars
    /\ [](caller.pc \in {"close80", "closed"} => HandleState = "Released")

C15_Witness ==
    /\ HandleState = "Released"
    /\ caller.pc = "ready"
    /\ worker.pc = "exit"


\* C16: on an error branch the read end is closed with the error before
\* Release is called, so when Close returns an error the read end is closed;
\* on the success path Release(nil) is called first and the read end is
\* closed after it.
C16_OrderOfExitSignals ==
    /\ (hist.failed /\ hist.nRelease >= 1) =>
          (hist.nRClose = 1 /\ pipe.rerr = worker.err)
    /\ (Closed /\ closeRes.err # Nil) => pipe.rerr # Nil
    /\ (worker.path = "success" /\ hist.nRelease = 0) =>
          (hist.nRClose = 0 /\ pipe.rerr = Nil)
    /\ (worker.path = "success" /\ hist.nRClose >= 1) =>
          (hist.nRelease = 1 /\ worker.pc = "exit")

C16_Witness ==
    /\ Closed
    /\ closeRes.err # Nil
    /\ closeRes.err = worker.err
    /\ pipe.rerr = worker.err
    /\ worker.path = "create"


\* os.Create has returned nil: the file at objectPath is the goroutine's.
Created ==
    \/ worker.pc \in {"copyRead", "copyWrite"}
    \/ worker.path \in {"copy", "write", "success"}

IsPrefix(s, t) == Len(s) <= Len(t) /\ s = SubSeq(t, 1, Len(s))

\* C17: what the goroutine has written to the file is a prefix of the bytes
\* the caller has passed to Write, in order, and is at most size bytes long.
C17_FileIsPrefix ==
    Created =>
       /\ IsPrefix(files[objectPath], sent)
       /\ Len(files[objectPath]) <= req.size

C17_Witness ==
    /\ Created
    /\ req.size = MaxSize
    /\ Len(files[objectPath]) = MaxSize
    /\ Len(sent) > MaxSize
    /\ Len(wres) >= 2

\* The bytes passed to the Write calls before the i-th that has returned.
RECURSIVE StartOf(_)
StartOf(i) == IF i <= 1 THEN 0 ELSE StartOf(i - 1) + wres[i - 1].len

C19_ProgressWithinTotal ==
    (bar.pc = "idle" /\ bar.last = "Read") => bar.current <= bar.total

C19_Witness ==
    /\ bar.pc = "idle"
    /\ bar.last = "Read"
    /\ bar.buflen = MaxBuf
    /\ bar.total = MaxTotal
    /\ bar.current = bar.total

=============================================================================
